---- MODULE Spec2Model ----
(***************************************************************************)
(* The completion handlers of both wire surfaces                           *)
(* (src/src/routes/messages/handler.ts and                                 *)
(* src/src/routes/chat-completions/handler.ts, handleCompletion), the      *)
(* metrics module they report to (src/unnamed/part_000) and the two        *)
(* translators the Anthropic surface drives: the Request Translator        *)
(* (translateToOpenAI) and the per-chunk stream event translator           *)
(* (translateChunkToAnthropicEvents).  The bodies of the translators are   *)
(* not among the source files: they are modelled from spec.md sections     *)
(* 4.1 and 4.3.                                                            *)
(*                                                                         *)
(* Specifications:                                                         *)
(*   Spec            the stream callback of the Anthropic surface          *)
(*   SpecRelay       the stream callback of the OpenAI surface             *)
(*   SpecRequest     a whole request on either surface                     *)
(*   SpecDisconnect  a stream callback whose client may disconnect         *)
(*   SpecConcurrent  two stream callbacks interleaved at their awaits      *)
(*   SpecTranslate   the Request Translator applied to a request           *)
(*   SpecMetrics     sequences of calls on the metrics module              *)
(*                                                                         *)
(* Abstractions: text fragments, partial-JSON fragments, call ids, tool    *)
(* names and the stop-reason table are payload that no step branches on;   *)
(* an event keeps its type, its content-block index, the block kind, the   *)
(* upstream tool-call index it belongs to and, for message_delta, the      *)
(* usage it carries.                                                       *)
(***************************************************************************)
EXTENDS Integers, Sequences, FiniteSets, TLC

\* ------------------------------------------------------------------ bounds

\* Chunks parsed and translated in one exchange.
MaxChunks == 3

\* Upstream tool-call indices (the claims speak of tool calls 0 and 1).
ToolIndices == {0, 1}

\* ------------------------------------------------------------------- data

\* chunk.usage: absent, or a record of prompt_tokens and completion_tokens.
NoUsage == [has |-> FALSE, prompt_tokens |-> 0, completion_tokens |-> 0]

Usage(p, c) == [has |-> TRUE, prompt_tokens |-> p, completion_tokens |-> c]

\* The usage records the upstream may send: zero counts, and counts that
\* differ from zero and from each other.
Usages == {Usage(0, 0), Usage(2, 1)}

\* The tool-call fragments one delta may carry: one or two, by tool-call index.
ToolFragments ==
    {<<t>> : t \in ToolIndices} \cup {<<t, u>> : t \in ToolIndices, u \in ToolIndices}

\* A ChatChunk: delta present or not, delta.content present or not,
\* delta.tool_calls (tool-call indices, in order), finish_reason present or
\* not, usage.
Chunk(d, x, ts, f, u) ==
    [delta |-> d, text |-> x, tools |-> ts, finish |-> f, usage |-> u]

\* Chunks the upstream may send.  A usage record rides on a chunk with no
\* delta (a usage-only chunk) or on a finishing chunk with an empty delta;
\* a delta carries nothing, text, tool-call fragments, or text and one
\* fragment.
Chunks ==
    {Chunk(FALSE, FALSE, <<>>, f, u) : f \in BOOLEAN, u \in Usages \cup {NoUsage}}
    \cup {Chunk(TRUE, FALSE, <<>>, f, NoUsage) : f \in BOOLEAN}
    \cup {Chunk(TRUE, FALSE, <<>>, TRUE, u) : u \in Usages}
    \cup {Chunk(TRUE, TRUE, <<>>, f, NoUsage) : f \in BOOLEAN}
    \cup {Chunk(TRUE, FALSE, ts, f, NoUsage) : ts \in ToolFragments, f \in BOOLEAN}
    \cup {Chunk(TRUE, TRUE, <<t>>, f, NoUsage) : t \in ToolIndices, f \in BOOLEAN}

\* An AnthropicEvent.
Ev(t, i, k, tl, u) ==
    [type |-> t, index |-> i, kind |-> k, tool |-> tl, usage |-> u]

MessageStart == Ev("message_start", -1, "none", -1, NoUsage)

BlockStart(i, k, tl) == Ev("content_block_start", i, k, tl, NoUsage)

BlockDelta(i, k, tl) == Ev("content_block_delta", i, k, tl, NoUsage)

BlockStop(i) == Ev("content_block_stop", i, "none", -1, NoUsage)

MessageDelta(u) == Ev("message_delta", -1, "none", -1, u)

MessageStop == Ev("message_stop", -1, "none", -1, NoUsage)

\* -------------------------------------------------- translation state

\* A mutation of InitStreamState: the first block index is 1.
InitStreamStateFromOne ==
    [messageStartSent |-> FALSE, contentBlockIndex |-> 1,
     contentBlockOpen |-> FALSE, toolCalls |-> <<>>]

\* const streamState: AnthropicStreamState = {...}.  toolCalls maps an
\* upstream tool-call index to its allocated content-block index.
InitStreamState ==
    [messageStartSent |-> FALSE, contentBlockIndex |-> 0,
     contentBlockOpen |-> FALSE, toolCalls |-> <<>>]

\* What the algorithm of section 4.3 keeps beyond the four fields above: the
\* automaton's terminal state and the retained usage totals (zero at first).
InitAutomaton == [finished |-> FALSE, usage |-> Usage(0, 0)]

\* ------------------------------------------ stream event translator (4.3)

\* A mutation of IsKeepAlive: no chunk is treated as a keep-alive.
NeverKeepAlive(chunk) == FALSE

\* A chunk with no delta and no finish reason.
IsKeepAlive(chunk) == ~chunk.delta /\ ~chunk.finish

\* contentBlockIndex is the next index to allocate: the open block is the
\* one allocated last.
OpenIndex(st) == st.contentBlockIndex - 1

\* A translation in progress: the state, the automaton, the events so far,
\* and whether it is still going (FALSE: ProtocolViolation was raised).
Tr(st, au, evs, ok) == [st |-> st, au |-> au, evs |-> evs, ok |-> ok]

\* Step 1: message_start, once, first.
StepMessageStart(r) ==
    IF r.st.messageStartSent THEN r
    ELSE Tr([r.st EXCEPT !.messageStartSent = TRUE], r.au,
            Append(r.evs, MessageStart), r.ok)

\* Allocate the next content-block index, open it with content_block_start.
OpenBlock(r, k, tl) ==
    LET i == r.st.contentBlockIndex
    IN Tr([r.st EXCEPT !.contentBlockIndex = i + 1, !.contentBlockOpen = TRUE],
          r.au, Append(r.evs, BlockStart(i, k, tl)), r.ok)

\* Close the open block, if any, with content_block_stop.
CloseBlock(r) ==
    IF ~r.st.contentBlockOpen THEN r
    ELSE Tr([r.st EXCEPT !.contentBlockOpen = FALSE], r.au,
            Append(r.evs, BlockStop(OpenIndex(r.st))), r.ok)

\* Step 2: plain text.
StepText(chunk, r) ==
    IF ~chunk.text THEN r
    ELSE LET o == IF r.st.contentBlockOpen THEN r ELSE OpenBlock(r, "text", -1)
         IN Tr(o.st, o.au,
               Append(o.evs, BlockDelta(OpenIndex(o.st), "text", -1)), o.ok)

\* Step 3, one fragment.
StepFragment(t, r) ==
    IF ~r.ok THEN r
    ELSE IF t \notin DOMAIN r.st.toolCalls
    THEN LET c == CloseBlock(r)
             i == c.st.contentBlockIndex
             o == OpenBlock(Tr([c.st EXCEPT !.toolCalls = @ @@ (t :> i)],
                               c.au, c.evs, c.ok), "tool_use", t)
         IN Tr(o.st, o.au, Append(o.evs, BlockDelta(i, "tool_use", t)), o.ok)
    ELSE LET b == r.st.toolCalls[t]
         IN IF r.st.contentBlockOpen /\ OpenIndex(r.st) = b
            THEN Tr(r.st, r.au, Append(r.evs, BlockDelta(b, "tool_use", t)), r.ok)
            ELSE Tr(r.st, r.au, r.evs, FALSE)

\* Step 3: every fragment, in order.
RECURSIVE StepTools(_, _)
StepTools(ts, r) ==
    IF ts = <<>> THEN r ELSE StepTools(Tail(ts), StepFragment(Head(ts), r))

\* A mutation of RetainUsage: the usage records are summed.
RetainUsageSum(chunk, au) ==
    IF chunk.usage.has
    THEN [au EXCEPT !.usage = Usage(@.prompt_tokens + chunk.usage.prompt_tokens,
                                    @.completion_tokens + chunk.usage.completion_tokens)]
    ELSE au

\* Step 4: retain the chunk's usage record, last value wins.
RetainUsage(chunk, au) ==
    IF chunk.usage.has THEN [au EXCEPT !.usage = chunk.usage] ELSE au

StepUsage(chunk, r) == Tr(r.st, RetainUsage(chunk, r.au), r.evs, r.ok)

\* Step 5: the finish reason.
StepFinish(chunk, r) ==
    IF ~chunk.finish \/ ~r.ok THEN r
    ELSE LET c == CloseBlock(r)
         IN Tr(c.st, [c.au EXCEPT !.finished = TRUE],
               c.evs \o <<MessageDelta(c.au.usage), MessageStop>>, c.ok)

\* translateChunkToAnthropicEvents(chunk, streamState): the events the chunk
\* implies and the state after it; ok = FALSE when it throws
\* ProtocolViolation (the state keeps what was mutated before the throw, no
\* event is returned).
translateChunkToAnthropicEvents(chunk, st, au) ==
    IF au.finished THEN Tr(st, au, <<>>, FALSE)
    ELSE LET r0 == Tr(st, au, <<>>, TRUE)
             r1 == IF IsKeepAlive(chunk) THEN r0 ELSE StepMessageStart(r0)
             r2 == StepText(chunk, r1)
             r3 == StepTools(chunk.tools, r2)
             r4 == StepUsage(chunk, r3)
             r5 == StepFinish(chunk, r4)
         IN IF r5.ok THEN r5 ELSE Tr(r5.st, r5.au, <<>>, FALSE)

\* ---------------------------------------------------------------- metrics

\* Model names: openAIPayload.model and response.model may differ.
Models == {"m1", "m2"}

\* The endpoint labels the routes pass to recordRequest.
Endpoints == {"messages", "chat-completions", "embeddings"}

\* The three counters of the registry, no sample yet: tokensInCounter and
\* tokensOutCounter by model, requestCounter by model and endpoint.
ZeroMetrics ==
    [tokensIn |-> [m \in Models |-> 0],
     tokensOut |-> [m \in Models |-> 0],
     requests |-> [l \in Models \X Endpoints |-> 0]]

\* A mutation of recordTokenUsage: the two counts are swapped.
recordTokenUsageSwapped(m, model, tokensIn, tokensOut) ==
    [m EXCEPT !.tokensIn[model] = @ + tokensOut,
              !.tokensOut[model] = @ + tokensIn]

\* tokensInCounter.inc({model}, tokensIn); tokensOutCounter.inc({model}, tokensOut)
recordTokenUsage(m, model, tokensIn, tokensOut) ==
    [m EXCEPT !.tokensIn[model] = @ + tokensIn,
              !.tokensOut[model] = @ + tokensOut]

\* A mutation of recordRequest: the request is counted under every endpoint.
recordRequestAnyEndpoint(m, model, endpoint) ==
    [m EXCEPT !.requests = [l \in Models \X Endpoints |->
                               IF l[1] = model THEN @[l] + 1 ELSE @[l]]]

\* requestCounter.inc({model, endpoint})
recordRequest(m, model, endpoint) ==
    [m EXCEPT !.requests[<<model, endpoint>>] = @ + 1]

\* ------------------------------------------------- handler (streaming)

VARIABLES
    pc,                     \* where the stream callback is
    streamState,            \* the AnthropicStreamState of the exchange
    automaton,              \* what section 4.3 keeps beyond streamState
    totalPromptTokens,      \* let totalPromptTokens = 0
    totalCompletionTokens,  \* let totalCompletionTokens = 0
    events,                 \* the events of the current chunk not yet written
    written,                \* the events written to the client, in order
    chunks,                 \* the chunks parsed so far, in arrival order
    err,                    \* the exception that ended the callback, if any
    reported,               \* the recordTokenUsage calls made, in order
    requested,              \* the recordRequest calls made, in order
    metrics,                \* the counters of the metrics registry
    raw,                    \* the data of the last raw event the loop took
    rq,                     \* the request: surface, model, calls made for it
    conn,                   \* the client connection: "open" or "closed"
    tx,                     \* a request handed to the Request Translator
    ex                      \* two exchanges handled concurrently

vars == <<pc, streamState, automaton, totalPromptTokens, totalCompletionTokens,
          events, written, chunks, err, reported, requested, metrics, raw, rq,
          conn, tx, ex>>

\* What the stream callback of one exchange never touches.
outside == <<requested, rq, conn, tx, ex>>

\* The request whose response is being streamed: translated, sent upstream
\* and counted once.
Streaming(surface, model) ==
    [surface |-> surface, model |-> model, translated |-> 1, upstreamCalls |-> 1,
     response |-> "stream", usage |-> NoUsage, responseModel |-> model]

\* No request under translation, no concurrent exchanges.
NoTx == [input |-> <<>>, output |-> <<>>]

NoEx == <<>>

Init ==
    /\ pc = "read"
    /\ streamState = InitStreamState
    /\ automaton = InitAutomaton
    /\ totalPromptTokens = 0
    /\ totalCompletionTokens = 0
    /\ events = <<>>
    /\ written = <<>>
    /\ chunks = <<>>
    /\ err = "none"
    /\ reported = <<>>
    /\ rq = Streaming("messages", "m1")
    /\ requested = <<<<"m1", "messages">>>>
    /\ metrics = recordRequest(ZeroMetrics, "m1", "messages")
    /\ raw = "none"
    /\ conn = "open"
    /\ tx = NoTx
    /\ ex = NoEx

\* A mutation of StateForChunk: a new state object for every chunk.
FreshStateForChunk(st) == InitStreamState

\* The state object handed to the translator: the one streamState created
\* before the loop, the same for every chunk.
StateForChunk(st) == st

\* A mutation of EventToWrite: the last event of the list.
LastEventToWrite(evs) == evs[Len(evs)]

\* for (const event of events): the next event to write is the first one
\* not yet written.
EventToWrite(evs) == Head(evs)

\* A mutation of LoopBack: the next chunk is read after one write.
LoopBackAfterOne(evs) == "read"

\* The inner loop writes every event of the chunk before the outer loop
\* reads again.
LoopBack(evs) == IF evs = <<>> THEN "read" ELSE "write"

\* A mutation of AfterThrow: the exception is swallowed, the loop continues.
AfterThrowContinue == "read"

\* No try/catch in the callback: an exception ends it.
AfterThrow == "failed"

\* A mutation of UsageTotals: the counts are added to the totals.
UsageTotalsSum(chunk, p, c) ==
    IF chunk.usage.has
    THEN <<p + chunk.usage.prompt_tokens, c + chunk.usage.completion_tokens>>
    ELSE <<p, c>>

\* if (chunk.usage) { totalPromptTokens = ...; totalCompletionTokens = ... }:
\* the totals after a chunk, given the totals p and c before it.
UsageTotals(chunk, p, c) ==
    IF chunk.usage.has
    THEN <<chunk.usage.prompt_tokens, chunk.usage.completion_tokens>>
    ELSE <<p, c>>

\* A mutation of ShouldReport: the totals are reported whatever they are.
AlwaysReport(p, c) == TRUE

\* if (totalPromptTokens > 0 || totalCompletionTokens > 0)
ShouldReport(p, c) == p > 0 \/ c > 0

\* The code after the loop: recordTokenUsage(openAIPayload.model, totals)
\* under the guard, and the callback returns.
AfterLoop ==
    /\ reported' = IF ShouldReport(totalPromptTokens, totalCompletionTokens)
                   THEN Append(reported,
                               <<rq.model, totalPromptTokens, totalCompletionTokens>>)
                   ELSE reported
    /\ metrics' = IF ShouldReport(totalPromptTokens, totalCompletionTokens)
                  THEN recordTokenUsage(metrics, rq.model,
                                        totalPromptTokens, totalCompletionTokens)
                  ELSE metrics
    /\ pc' = "done"
    /\ UNCHANGED <<streamState, automaton, totalPromptTokens, totalCompletionTokens,
                   events, written, chunks, err>>
    /\ UNCHANGED outside

\* A mutation of IsDone: the end marker is not recognised.
IsDoneNever(data) == FALSE

\* rawEvent.data === "[DONE]"
IsDone(data) == data = "[DONE]"

\* A mutation of IsEmptyData: empty data is not recognised.
IsEmptyDataNever(data) == FALSE

\* !rawEvent.data
IsEmptyData(data) == data = ""

\* One raw event whose data is not a JSON chunk, through the tests of the
\* loop body in their order: break on the end marker, continue on empty
\* data, else JSON.parse, which throws.
RawEvent(data) ==
    /\ raw' = data
    /\ IF IsDone(data) THEN AfterLoop
       ELSE IF IsEmptyData(data)
       THEN UNCHANGED <<pc, streamState, automaton, totalPromptTokens,
                        totalCompletionTokens, events, written, chunks, err,
                        reported, metrics, outside>>
       ELSE /\ pc' = AfterThrow
            /\ err' = "SyntaxError"
            /\ UNCHANGED <<streamState, automaton, totalPromptTokens,
                           totalCompletionTokens, events, written, chunks,
                           reported, metrics, outside>>

\* rawEvent.data === "[DONE]": break, then the code after the loop.
ReadDone == pc = "read" /\ RawEvent("[DONE]")

\* The upstream stream ends: the loop ends, then the code after it.
ReadEnd == pc = "read" /\ raw' = "end" /\ AfterLoop

\* !rawEvent.data: continue.
ReadEmpty == pc = "read" /\ RawEvent("")

\* JSON.parse throws on data that is not JSON.
ReadUnparsable == pc = "read" /\ RawEvent("text")

\* One parsed chunk: the usage totals, then the translation.
ReadChunk ==
    /\ pc = "read"
    /\ Len(chunks) < MaxChunks
    /\ \E chunk \in Chunks :
         LET r == translateChunkToAnthropicEvents(
                      chunk, StateForChunk(streamState), automaton)
         IN /\ chunks' = Append(chunks, chunk)
            /\ totalPromptTokens' =
                 UsageTotals(chunk, totalPromptTokens, totalCompletionTokens)[1]
            /\ totalCompletionTokens' =
                 UsageTotals(chunk, totalPromptTokens, totalCompletionTokens)[2]
            /\ streamState' = r.st
            /\ automaton' = r.au
            /\ events' = r.evs
            /\ pc' = IF r.ok THEN LoopBack(r.evs) ELSE AfterThrow
            /\ err' = IF r.ok THEN err ELSE "ProtocolViolation"
            /\ raw' = "json"
            /\ UNCHANGED <<written, reported, metrics, outside>>

\* await stream.writeSSE({event: event.type, data: JSON.stringify(event)})
WriteSSE ==
    /\ pc = "write"
    /\ conn = "open"
    /\ events # <<>>
    /\ written' = Append(written, EventToWrite(events))
    /\ events' = Tail(events)
    /\ pc' = LoopBack(events')
    /\ UNCHANGED <<streamState, automaton, totalPromptTokens, totalCompletionTokens,
                   chunks, err, reported, metrics, raw, outside>>

Next ==
    \/ ReadDone
    \/ ReadEnd
    \/ ReadEmpty
    \/ ReadUnparsable
    \/ ReadChunk
    \/ WriteSSE

Spec == Init /\ [][Next]_vars

\* ------------------------------------ handler (OpenAI surface, streaming)

\* A field of a usage record that is absent (or null) in the parsed chunk.
Missing == -1

\* parsed.usage on the OpenAI surface: either field may be absent.
RelayUsages ==
    {Usage(p, c) : p \in {Missing, 0, 2}, c \in {Missing, 0, 1}} \cup {NoUsage}

\* An upstream chunk as the OpenAI surface sees it: its data is the end
\* marker, empty, text that is not JSON, or JSON with its usage field.
RelayChunk(d, u) == [data |-> d, usage |-> u]

RelayChunks ==
    {RelayChunk(d, NoUsage) : d \in {"[DONE]", "", "text"}}
    \cup {RelayChunk("json", u) : u \in RelayUsages}

\* A mutation of RelayTotals: an absent field counts as zero.
RelayTotalsZeroed(chunk, p, c) ==
    IF chunk.data # "" /\ chunk.data # "[DONE]" /\ chunk.data = "json"
       /\ chunk.usage.has
    THEN <<IF chunk.usage.prompt_tokens = Missing
           THEN 0 ELSE chunk.usage.prompt_tokens,
           IF chunk.usage.completion_tokens = Missing
           THEN 0 ELSE chunk.usage.completion_tokens>>
    ELSE <<p, c>>

\* if (chunk.data && chunk.data !== "[DONE]") try { parsed = JSON.parse(..);
\* if (parsed.usage) { total = parsed.usage.field ?? total } } catch {}:
\* the totals after a chunk, given the totals p and c before it.
RelayTotals(chunk, p, c) ==
    IF chunk.data # "" /\ chunk.data # "[DONE]" /\ chunk.data = "json"
       /\ chunk.usage.has
    THEN <<IF chunk.usage.prompt_tokens = Missing
           THEN p ELSE chunk.usage.prompt_tokens,
           IF chunk.usage.completion_tokens = Missing
           THEN c ELSE chunk.usage.completion_tokens>>
    ELSE <<p, c>>

\* A mutation of RelayForwarded: the end marker is not forwarded.
RelayForwardedButDone(chunk) == chunk.data # "[DONE]"

\* await stream.writeSSE(chunk as SSEMessage): every chunk is forwarded.
RelayForwarded(chunk) == TRUE

\* for await (const chunk of response): one chunk, its usage into the
\* totals, up to the await of the write.
RelayRead ==
    /\ pc = "relay"
    /\ Len(chunks) < MaxChunks
    /\ \E chunk \in RelayChunks :
         /\ chunks' = Append(chunks, chunk)
         /\ totalPromptTokens' =
              RelayTotals(chunk, totalPromptTokens, totalCompletionTokens)[1]
         /\ totalCompletionTokens' =
              RelayTotals(chunk, totalPromptTokens, totalCompletionTokens)[2]
         /\ events' = IF RelayForwarded(chunk) THEN <<chunk>> ELSE <<>>
         /\ pc' = IF RelayForwarded(chunk) THEN "relay-write" ELSE "relay"
         /\ raw' = chunk.data
    /\ UNCHANGED <<streamState, automaton, written, err, reported, metrics, outside>>

\* The write of the chunk completes.
RelayWrite ==
    /\ pc = "relay-write"
    /\ conn = "open"
    /\ written' = Append(written, Head(events))
    /\ events' = Tail(events)
    /\ pc' = "relay"
    /\ UNCHANGED <<streamState, automaton, totalPromptTokens, totalCompletionTokens,
                   chunks, err, reported, metrics, raw, outside>>

\* The upstream stream ends: the code after the loop, the same guarded
\* recordTokenUsage(payload.model, totals) as on the Anthropic surface.
RelayEnd == pc = "relay" /\ raw' = "end" /\ AfterLoop

\* The stream callback of the OpenAI surface starts.
InitRelay ==
    /\ pc = "relay"
    /\ streamState = InitStreamState
    /\ automaton = InitAutomaton
    /\ totalPromptTokens = 0
    /\ totalCompletionTokens = 0
    /\ events = <<>>
    /\ written = <<>>
    /\ chunks = <<>>
    /\ err = "none"
    /\ reported = <<>>
    /\ rq = Streaming("chat-completions", "m1")
    /\ requested = <<<<"m1", "chat-completions">>>>
    /\ metrics = recordRequest(ZeroMetrics, "m1", "chat-completions")
    /\ raw = "none"
    /\ conn = "open"
    /\ tx = NoTx
    /\ ex = NoEx

NextRelay ==
    \/ RelayRead
    \/ RelayWrite
    \/ RelayEnd

SpecRelay == InitRelay /\ [][NextRelay]_vars

\* ------------------------------------------- handler (the whole request)

\* The two wire surfaces served by handleCompletion.
Surfaces == {"messages", "chat-completions"}

\* A request as it arrives: nothing translated, nothing sent upstream.
Arrived(surface, model) ==
    [surface |-> surface, model |-> model, translated |-> 0, upstreamCalls |-> 0,
     response |-> "none", usage |-> NoUsage, responseModel |-> model]

\* The awaited calls of handleCompletion in their order; the Anthropic
\* surface translates the request, the OpenAI surface forwards it as it is.
Following(surface, step) ==
    CASE step = "checkRateLimit" -> "json"
      [] step = "json" ->
           IF surface = "messages" THEN "translateToOpenAI" ELSE "awaitApproval"
      [] step = "translateToOpenAI" -> "awaitApproval"
      [] step = "awaitApproval" -> "createChatCompletions"
      [] step = "createChatCompletions" -> "recordRequest"

\* A mutation of Thrown: the exception is swallowed, the handler goes on.
ThrownIgnored(surface, step) == Following(surface, step)

\* No try/catch in handleCompletion: an exception of a call ends the request.
Thrown(surface, step) == "failed"

\* The step at pc returns.
Returns(step) ==
    /\ pc = step
    /\ pc' = Following(rq.surface, step)

\* The step at pc throws e.
Throws(step, e) ==
    /\ pc = step
    /\ pc' = Thrown(rq.surface, step)
    /\ err' = e

streamLocals == <<streamState, automaton, totalPromptTokens, totalCompletionTokens,
                  events, written, chunks, raw>>

\* await checkRateLimit(state): admission control lets the request pass
\* or rejects it.
CheckRateLimit ==
    /\ \/ Returns("checkRateLimit") /\ UNCHANGED err
       \/ Throws("checkRateLimit", "RateLimited")
    /\ UNCHANGED <<streamLocals, reported, requested, metrics, rq, conn, tx, ex>>

\* await c.req.json(): the body parses or it is malformed.
ReadBody ==
    /\ \/ Returns("json") /\ UNCHANGED err
       \/ Throws("json", "MalformedBody")
    /\ UNCHANGED <<streamLocals, reported, requested, metrics, rq, conn, tx, ex>>

\* translateToOpenAI(anthropicPayload): the Request Translator, which may
\* fail with ValidationError.
TranslateRequest ==
    /\ \/ Returns("translateToOpenAI") /\ UNCHANGED err
       \/ Throws("translateToOpenAI", "ValidationError")
    /\ rq' = [rq EXCEPT !.translated = @ + 1]
    /\ UNCHANGED <<streamLocals, reported, requested, metrics, conn, tx, ex>>

\* if (state.manualApprove) await awaitApproval(): skipped, approved or
\* rejected.
AwaitApproval ==
    /\ \/ Returns("awaitApproval") /\ UNCHANGED err
       \/ Throws("awaitApproval", "Rejected")
    /\ UNCHANGED <<streamLocals, reported, requested, metrics, rq, conn, tx, ex>>

\* await createChatCompletions(payload): the upstream answers with a
\* complete response (with or without usage) or with a stream, or fails.
CreateChatCompletions ==
    /\ \/ /\ Returns("createChatCompletions")
          /\ UNCHANGED err
          /\ \/ \E u \in Usages \cup {NoUsage}, m \in Models :
                  rq' = [rq EXCEPT !.upstreamCalls = @ + 1, !.response = "json",
                                   !.usage = u, !.responseModel = m]
             \/ rq' = [rq EXCEPT !.upstreamCalls = @ + 1, !.response = "stream"]
       \/ /\ Throws("createChatCompletions", "UpstreamFailure")
          /\ rq' = [rq EXCEPT !.upstreamCalls = @ + 1]
    /\ UNCHANGED <<streamLocals, reported, requested, metrics, conn, tx, ex>>

\* The complete response written to the client.
JsonResponse == [type |-> "response"]

\* recordRequest(payload.model, surface), then, with no await between, the
\* branch on the response: a complete response has its usage recorded if it
\* carries any (response.model, response.usage) and is returned, on the
\* Anthropic surface through translateToAnthropic, which may fail; a stream
\* starts the stream callback.
RecordRequestAndRespond ==
    /\ pc = "recordRequest"
    /\ requested' = Append(requested, <<rq.model, rq.surface>>)
    /\ IF rq.response = "stream"
       THEN /\ pc' = IF rq.surface = "messages" THEN "read" ELSE "relay"
            /\ metrics' = recordRequest(metrics, rq.model, rq.surface)
            /\ UNCHANGED <<reported, written, err>>
       ELSE /\ metrics' =
                 IF rq.usage.has
                 THEN recordTokenUsage(
                          recordRequest(metrics, rq.model, rq.surface),
                          rq.responseModel,
                          rq.usage.prompt_tokens, rq.usage.completion_tokens)
                 ELSE recordRequest(metrics, rq.model, rq.surface)
            /\ reported' =
                 IF rq.usage.has
                 THEN Append(reported, <<rq.responseModel, rq.usage.prompt_tokens,
                                         rq.usage.completion_tokens>>)
                 ELSE reported
            /\ \/ /\ pc' = "done"
                  /\ written' = Append(written, JsonResponse)
                  /\ UNCHANGED err
               \/ /\ rq.surface = "messages"
                  /\ pc' = "failed"
                  /\ err' = "MalformedUpstreamResponse"
                  /\ UNCHANGED written
    /\ UNCHANGED <<streamState, automaton, totalPromptTokens, totalCompletionTokens,
                   events, chunks, raw, rq, conn, tx, ex>>

\* A request arrives on either surface.
InitRequest ==
    /\ pc = "checkRateLimit"
    /\ streamState = InitStreamState
    /\ automaton = InitAutomaton
    /\ totalPromptTokens = 0
    /\ totalCompletionTokens = 0
    /\ events = <<>>
    /\ written = <<>>
    /\ chunks = <<>>
    /\ err = "none"
    /\ reported = <<>>
    /\ rq \in {Arrived(s, m) : s \in Surfaces, m \in Models}
    /\ requested = <<>>
    /\ metrics = ZeroMetrics
    /\ raw = "none"
    /\ conn = "open"
    /\ tx = NoTx
    /\ ex = NoEx

NextRequest ==
    \/ CheckRateLimit
    \/ ReadBody
    \/ TranslateRequest
    \/ AwaitApproval
    \/ CreateChatCompletions
    \/ RecordRequestAndRespond
    \/ Next
    \/ NextRelay

SpecRequest == InitRequest /\ [][NextRequest]_vars

\* ------------------------------------------------ helpers of the claims

\* Every event the translator has produced so far: those written, then those
\* of the current chunk still to be written.
Emitted == written \o events

Front(s) == SubSeq(s, 1, Len(s) - 1)

Last(s) == s[Len(s)]

\* The positions of s whose event has type t.
At(s, t) == {p \in 1..Len(s) : s[p].type = t}

\* The positions of s that open a block, the block indices s opens.
StartsOf(s) == At(s, "content_block_start")

IndicesOf(s) == {s[p].index : p \in StartsOf(s)}

\* The translator run over a chunk sequence from a fresh state, stopping at
\* the first ProtocolViolation: the reference the handler is compared with.
RECURSIVE Run(_)
Run(cs) ==
    IF cs = <<>> THEN Tr(InitStreamState, InitAutomaton, <<>>, TRUE)
    ELSE LET p == Run(Front(cs))
         IN IF ~p.ok THEN p
            ELSE LET r == translateChunkToAnthropicEvents(Last(cs), p.st, p.au)
                 IN Tr(r.st, r.au, p.evs \o r.evs, r.ok)

\* The first k chunks.
Prefix(k) == SubSeq(chunks, 1, k)

\* The usage record of the last chunk of cs that carried one (zero if none).
RECURSIVE LastUsage(_)
LastUsage(cs) ==
    IF cs = <<>> THEN Usage(0, 0)
    ELSE IF Last(cs).usage.has THEN Last(cs).usage
    ELSE LastUsage(Front(cs))

\* At most one message_start, and it is the first event.
StartFirst(s) ==
    /\ Cardinality(At(s, "message_start")) <= 1
    /\ s # <<>> => s[1] = MessageStart

\* Every block index is opened at most once and closed at most once, and
\* closed only after it was opened.
OpenedBeforeClosed(s) ==
    /\ \A p, q \in StartsOf(s) : s[p].index = s[q].index => p = q
    /\ \A p, q \in At(s, "content_block_stop") : s[p].index = s[q].index => p = q
    /\ \A q \in At(s, "content_block_stop") :
         \E p \in StartsOf(s) : p < q /\ s[p].index = s[q].index

\* At most one message_stop, the last event, right after the only
\* message_delta.
StopLast(s) ==
    /\ Cardinality(At(s, "message_stop")) <= 1
    /\ Cardinality(At(s, "message_delta")) = Cardinality(At(s, "message_stop"))
    /\ \A p \in At(s, "message_stop") :
         p = Len(s) /\ p > 1 /\ s[p - 1].type = "message_delta"

\* Exactly one message_start, message_delta and message_stop, and every
\* opened index closed.
Complete(s) ==
    /\ Cardinality(At(s, "message_start")) = 1
    /\ Cardinality(At(s, "message_stop")) = 1
    /\ Cardinality(At(s, "message_delta")) = 1
    /\ \A p \in StartsOf(s) :
         \E q \in At(s, "content_block_stop") : p < q /\ s[p].index = s[q].index

\* ----------------------------------------------------------------- claims

OneOpenAtATime(s) ==
    /\ \A p, q \in StartsOf(s) :
         p < q => \E r \in (p + 1)..(q - 1) : s[r] = BlockStop(s[p].index)
    /\ \A q \in At(s, "content_block_stop") :
         \E p \in StartsOf(s) : p < q /\ s[p].index = s[q].index

\* C2: at most one content block is open at any instant: a
\* content_block_start is never emitted while an earlier started block has
\* not received its content_block_stop.
C2_AtMostOneBlockOpen == OneOpenAtATime(Emitted)

\* C2 witness: a text block and two tool-use blocks have been opened in one
\* exchange.
C2_Witness ==
    /\ Cardinality(StartsOf(written)) = 3
    /\ \E p \in StartsOf(written) : written[p].kind = "text"

\* The starts of s carry 0, 1, 2, ... in order, and no start or delta of s
\* carries an index that an earlier stop closed.
DenseNeverReused(s) ==
    /\ \A p \in StartsOf(s) : s[p].index = Cardinality({q \in StartsOf(s) : q < p})
    /\ \A p \in At(s, "content_block_stop") :
         \A q \in (p + 1)..Len(s) :
            s[q].type \in {"content_block_start", "content_block_delta"}
                => s[q].index # s[p].index

MappedOnce(s, m) ==
    \A t \in ToolIndices :
        /\ Cardinality({p \in StartsOf(s) : s[p].tool = t}) <= 1
        /\ \A p \in 1..Len(s) :
             s[p].tool = t => t \in DOMAIN m /\ s[p].index = m[t]

RECURSIVE FragmentsOf(_)
FragmentsOf(cs) ==
    IF cs = <<>> THEN <<>> ELSE FragmentsOf(Front(cs)) \o Last(cs).tools

BeforeFragment(c, p, j) ==
    StepTools(SubSeq(c.tools, 1, j - 1),
              StepText(c, StepMessageStart(Tr(p.st, p.au, <<>>, TRUE))))

\* The last chunk carries a fragment for a tool call that is mapped to a
\* block which, when the fragment is reached, is not the open block (and the
\* exchange had not finished).
FragmentForClosedBlock ==
    /\ chunks # <<>>
    /\ LET p == Run(Front(chunks))
           c == Last(chunks)
       IN /\ p.ok
          /\ ~p.au.finished
          /\ \E j \in 1..Len(c.tools) :
                LET b == BeforeFragment(c, p, j)
                IN /\ b.ok
                   /\ c.tools[j] \in DOMAIN b.st.toolCalls
                   /\ ~(b.st.contentBlockOpen
                        /\ OpenIndex(b.st) = b.st.toolCalls[c.tools[j]])

TextThenTool(k) ==
    /\ k + 1 <= Len(chunks)
    /\ chunks[k].text /\ chunks[k].tools = <<>> /\ ~chunks[k].finish
    /\ chunks[k + 1].tools # <<>> /\ ~chunks[k + 1].text
    /\ LET p == Run(Prefix(k))
       IN /\ p.ok
          /\ p.st.contentBlockOpen
          /\ BlockStart(OpenIndex(p.st), "text", -1) \in {p.evs[i] : i \in 1..Len(p.evs)}
          /\ Head(chunks[k + 1].tools) \notin DOMAIN p.st.toolCalls

\* C7: a chunk with a text delta followed by a chunk with a tool-call delta
\* for an unseen tool call yields content_block_stop for the text block and
\* then content_block_start for the tool-use block, which gets the next
\* index; and in general a tool-use block opened after a text block starts
\* only after the text block's content_block_stop, with the next index.
C7_TextClosedBeforeToolStart ==
    /\ \A k \in 1..(Len(chunks) - 1) :
         TextThenTool(k) =>
            LET n == Len(Run(Prefix(k)).evs)
                i == OpenIndex(Run(Prefix(k)).st)
                t == Head(chunks[k + 1].tools)
            IN /\ Len(Emitted) >= n + 2
               /\ Emitted[n] = BlockDelta(i, "text", -1)
               /\ Emitted[n + 1] = BlockStop(i)
               /\ Emitted[n + 2] = BlockStart(i + 1, "tool_use", t)
    /\ \A p, q \in StartsOf(Emitted) :
         (/\ p < q
          /\ Emitted[p].kind = "text"
          /\ Emitted[q].kind = "tool_use"
          /\ \A r \in StartsOf(Emitted) : ~(p < r /\ r < q)) =>
            /\ Emitted[q].index = Emitted[p].index + 1
            /\ \E r \in (p + 1)..(q - 1) : Emitted[r] = BlockStop(Emitted[p].index)

\* C7 witness: a text chunk, then a tool-call chunk for an unseen tool call,
\* with the tool-use block's start written.
C7_Witness ==
    /\ TextThenTool(1)
    /\ \E q \in StartsOf(written) : written[q].kind = "tool_use"

C10_WriteBeforeNextChunk ==
    /\ pc \in {"read", "done", "failed"} => events = <<>>
    /\ pc = "write" => events # <<>>
    /\ written \o events = Run(chunks).evs

\* C10 witness: the second chunk's events are being written, one written
\* and more than one still to go.
C10_Witness ==
    /\ pc = "write"
    /\ Len(chunks) = 2
    /\ Len(events) >= 2
    /\ Len(written) > Len(Run(Prefix(1)).evs)
    /\ Len(Run(Prefix(1)).evs) > 0

\* ------------------------------------------ handler (client disconnect)

\* The client goes away while the stream callback runs.  Neither callback
\* registers an abort handler or tests the stream for being closed.
Disconnect ==
    /\ pc \in {"read", "write", "relay", "relay-write"}
    /\ conn = "open"
    /\ conn' = "closed"
    /\ UNCHANGED <<pc, streamLocals, err, reported, requested, metrics, rq, tx, ex>>

\* await stream.writeSSE(..) on a closed connection, the only place where
\* the callback could learn of the disconnect: the streaming helper drops
\* the write and the loop goes on.
WriteClosedDropped ==
    /\ pc \in {"write", "relay-write"}
    /\ conn # "open"
    /\ events # <<>>
    /\ conn' = "observed"
    /\ events' = Tail(events)
    /\ pc' = IF pc = "write" THEN LoopBack(events') ELSE "relay"
    /\ UNCHANGED <<streamState, automaton, totalPromptTokens, totalCompletionTokens,
                   written, chunks, raw, err, reported, requested, metrics, rq, tx, ex>>

\* await stream.writeSSE(..) on a closed connection: the write throws, and
\* with no try/catch the callback ends before the code after the loop.
WriteClosedThrows ==
    /\ pc \in {"write", "relay-write"}
    /\ conn # "open"
    /\ conn' = "observed"
    /\ pc' = AfterThrow
    /\ err' = "WriteError"
    /\ UNCHANGED <<streamLocals, reported, requested, metrics, rq, tx, ex>>

\* A stream callback of either surface starts.
InitDisconnect == Init \/ InitRelay

NextDisconnect ==
    \/ Next
    \/ NextRelay
    \/ Disconnect
    \/ WriteClosedDropped
    \/ WriteClosedThrows

SpecDisconnect == InitDisconnect /\ [][NextDisconnect]_vars

\* --------------------------------------- handler (concurrent exchanges)

\* Chunks parsed in each of the two concurrent exchanges.
MaxConcurrentChunks == 2

\* Two requests of the Anthropic surface handled at the same time.
Exchanges == {1, 2}

\* The chunks the upstream sends to a concurrent exchange: text, a fragment
\* of tool call 0, a finishing chunk with usage, a usage-only chunk with
\* zero counts.
ConcurrentChunks ==
    {Chunk(TRUE, TRUE, <<>>, FALSE, NoUsage),
     Chunk(TRUE, FALSE, <<0>>, FALSE, NoUsage),
     Chunk(TRUE, FALSE, <<>>, TRUE, Usage(2, 1)),
     Chunk(FALSE, FALSE, <<>>, FALSE, Usage(0, 0))}

\* The locals of one invocation of handleCompletion and of its stream
\* callback.
Locals ==
    [pc |-> "read", streamState |-> InitStreamState, automaton |-> InitAutomaton,
     totalPromptTokens |-> 0, totalCompletionTokens |-> 0, events |-> <<>>,
     written |-> <<>>, chunks |-> <<>>, reported |-> <<>>]

\* A mutation of StateOwner: one state object, that of exchange 1, is used
\* by every callback.
StateOwnerShared(e) == 1

\* const streamState = {..} inside the callback: every exchange translates
\* with the state object its own callback created.
StateOwner(e) == e

\* Exchange e takes one parsed chunk: the usage totals, then the
\* translation.
ExchangeRead(e) ==
    /\ ex[e].pc = "read"
    /\ Len(ex[e].chunks) < MaxConcurrentChunks
    /\ \E chunk \in ConcurrentChunks :
         LET o == StateOwner(e)
             r == translateChunkToAnthropicEvents(
                      chunk, ex[o].streamState, ex[o].automaton)
             t == UsageTotals(chunk, ex[e].totalPromptTokens,
                              ex[e].totalCompletionTokens)
             translated == [ex EXCEPT ![o].streamState = r.st,
                                      ![o].automaton = r.au]
         IN ex' = [translated EXCEPT
                     ![e].chunks = Append(@, chunk),
                     ![e].totalPromptTokens = t[1],
                     ![e].totalCompletionTokens = t[2],
                     ![e].events = r.evs,
                     ![e].pc = IF r.ok THEN LoopBack(r.evs) ELSE AfterThrow]
    /\ UNCHANGED <<pc, streamLocals, err, reported, requested, metrics, rq, conn, tx>>

\* Exchange e writes the next event of its chunk to its client.
ExchangeWrite(e) ==
    /\ ex[e].pc = "write"
    /\ ex[e].events # <<>>
    /\ ex' = [ex EXCEPT ![e].written = Append(@, EventToWrite(ex[e].events)),
                        ![e].events = Tail(@),
                        ![e].pc = LoopBack(Tail(ex[e].events))]
    /\ UNCHANGED <<pc, streamLocals, err, reported, requested, metrics, rq, conn, tx>>

\* The stream of exchange e ends: the code after the loop, which adds the
\* totals of the exchange to the counters all requests share.
ExchangeEnd(e) ==
    /\ ex[e].pc = "read"
    /\ LET p == ex[e].totalPromptTokens
           c == ex[e].totalCompletionTokens
       IN IF ShouldReport(p, c)
          THEN /\ metrics' = recordTokenUsage(metrics, rq.model, p, c)
               /\ reported' = Append(reported, <<rq.model, p, c>>)
               /\ ex' = [ex EXCEPT ![e].pc = "done",
                                   ![e].reported = Append(@, <<rq.model, p, c>>)]
          ELSE /\ ex' = [ex EXCEPT ![e].pc = "done"]
               /\ UNCHANGED <<metrics, reported>>
    /\ UNCHANGED <<pc, streamLocals, err, requested, rq, conn, tx>>

\* Two streaming requests for the same model were accepted and counted; the
\* stream callback of each starts.
InitConcurrent ==
    /\ pc = "concurrent"
    /\ streamState = InitStreamState
    /\ automaton = InitAutomaton
    /\ totalPromptTokens = 0
    /\ totalCompletionTokens = 0
    /\ events = <<>>
    /\ written = <<>>
    /\ chunks = <<>>
    /\ err = "none"
    /\ reported = <<>>
    /\ rq = Streaming("messages", "m1")
    /\ requested = <<<<"m1", "messages">>, <<"m1", "messages">>>>
    /\ metrics = recordRequest(recordRequest(ZeroMetrics, "m1", "messages"),
                               "m1", "messages")
    /\ raw = "none"
    /\ conn = "open"
    /\ tx = NoTx
    /\ ex = [e \in Exchanges |-> Locals]

NextConcurrent ==
    \/ \E e \in Exchanges : ExchangeRead(e)
    \/ \E e \in Exchanges : ExchangeWrite(e)
    \/ \E e \in Exchanges : ExchangeEnd(e)

SpecConcurrent == InitConcurrent /\ [][NextConcurrent]_vars

\* ---------------------------------------------------- Request Translator

\* Messages in an AnthropicRequest.
MaxMessages == 2

\* An Anthropic message: its role and the type of its content block, which
\* is text, a tool result, or one the translator does not recognise.
AnthropicMessages ==
    [role : {"user", "assistant"}, block : {"text", "tool_result", "other"}]

RECURSIVE SeqsUpTo(_, _)
SeqsUpTo(S, n) ==
    IF n = 0 THEN {<<>>}
    ELSE SeqsUpTo(S, n - 1)
         \cup {Append(q, x) : q \in {t \in SeqsUpTo(S, n - 1) : Len(t) = n - 1},
                              x \in S}

\* An AnthropicRequest: system prompt present or not, and its messages.
AnthropicRequests ==
    [system : BOOLEAN, messages : SeqsUpTo(AnthropicMessages, MaxMessages)]

\* A mutation of translateToOpenAI: the system prompt is dropped.
translateToOpenAINoSystem(req) ==
    IF req.messages = <<>>
       \/ \E i \in 1..Len(req.messages) : req.messages[i].block = "other"
    THEN [ok |-> FALSE, messages |-> <<>>]
    ELSE [ok |-> TRUE,
          messages |-> [i \in 1..Len(req.messages) |->
                          [role |-> req.messages[i].role]]]

\* The Request Translator: ValidationError on a request with no message or
\* with an unrecognised content block; else the system prompt, if present,
\* as a leading system-role message, then one message per Anthropic message
\* with its role.
translateToOpenAI(req) ==
    IF req.messages = <<>>
       \/ \E i \in 1..Len(req.messages) : req.messages[i].block = "other"
    THEN [ok |-> FALSE, messages |-> <<>>]
    ELSE [ok |-> TRUE,
          messages |->
            (IF req.system THEN <<[role |-> "system"]>> ELSE <<>>)
            \o [i \in 1..Len(req.messages) |-> [role |-> req.messages[i].role]]]

\* const openAIPayload = translateToOpenAI(anthropicPayload)
ApplyTranslator ==
    /\ pc = "translateToOpenAI"
    /\ tx.output = <<>>
    /\ LET r == translateToOpenAI(tx.input)
       IN /\ tx' = [tx EXCEPT !.output = r]
          /\ pc' = IF r.ok THEN "awaitApproval" ELSE "failed"
          /\ err' = IF r.ok THEN err ELSE "ValidationError"
          /\ rq' = [rq EXCEPT !.translated = @ + 1]
    /\ UNCHANGED <<streamLocals, reported, requested, metrics, conn, ex>>

\* A request of the Anthropic surface whose body was parsed.
InitTranslate ==
    /\ pc = "translateToOpenAI"
    /\ streamState = InitStreamState
    /\ automaton = InitAutomaton
    /\ totalPromptTokens = 0
    /\ totalCompletionTokens = 0
    /\ events = <<>>
    /\ written = <<>>
    /\ chunks = <<>>
    /\ err = "none"
    /\ reported = <<>>
    /\ rq = Arrived("messages", "m1")
    /\ requested = <<>>
    /\ metrics = ZeroMetrics
    /\ raw = "none"
    /\ conn = "open"
    /\ tx \in {[input |-> req, output |-> <<>>] : req \in AnthropicRequests}
    /\ ex = NoEx

NextTranslate == ApplyTranslator

SpecTranslate == InitTranslate /\ [][NextTranslate]_vars

\* ------------------------------------------------- metrics (its callers)

\* Calls made on the metrics module.
MaxCalls == 3

\* The token counts a caller passes: zero, and counts that differ between
\* input and output.
TokensIn == {0, 2}

TokensOut == {0, 1}

\* A route calls recordTokenUsage(model, tokensIn, tokensOut).
CallRecordTokenUsage ==
    /\ pc = "metrics"
    /\ Len(reported) + Len(requested) < MaxCalls
    /\ \E model \in Models, tokensIn \in TokensIn, tokensOut \in TokensOut :
         /\ metrics' = recordTokenUsage(metrics, model, tokensIn, tokensOut)
         /\ reported' = Append(reported, <<model, tokensIn, tokensOut>>)
    /\ UNCHANGED <<pc, streamLocals, err, requested, rq, conn, tx, ex>>

\* A route calls recordRequest(model, endpoint).
CallRecordRequest ==
    /\ pc = "metrics"
    /\ Len(reported) + Len(requested) < MaxCalls
    /\ \E model \in Models, endpoint \in Endpoints :
         /\ metrics' = recordRequest(metrics, model, endpoint)
         /\ requested' = Append(requested, <<model, endpoint>>)
    /\ UNCHANGED <<pc, streamLocals, err, reported, rq, conn, tx, ex>>

\* The embeddings route: recordRequest(paylod.model, "embeddings"), then
\* recordTokenUsage(response.model, response.usage.prompt_tokens, 0).
EmbeddingsRequest ==
    /\ pc = "metrics"
    /\ Len(reported) + Len(requested) + 1 < MaxCalls
    /\ \E model \in Models, responseModel \in Models, tokensIn \in TokensIn :
         /\ metrics' = recordTokenUsage(
                           recordRequest(metrics, model, "embeddings"),
                           responseModel, tokensIn, 0)
         /\ requested' = Append(requested, <<model, "embeddings">>)
         /\ reported' = Append(reported, <<responseModel, tokensIn, 0>>)
    /\ UNCHANGED <<pc, streamLocals, err, rq, conn, tx, ex>>

\* The registry as the module creates it, before any call.
InitMetrics ==
    /\ pc = "metrics"
    /\ streamState = InitStreamState
    /\ automaton = InitAutomaton
    /\ totalPromptTokens = 0
    /\ totalCompletionTokens = 0
    /\ events = <<>>
    /\ written = <<>>
    /\ chunks = <<>>
    /\ err = "none"
    /\ reported = <<>>
    /\ rq = Arrived("messages", "m1")
    /\ requested = <<>>
    /\ metrics = ZeroMetrics
    /\ raw = "none"
    /\ conn = "open"
    /\ tx = NoTx
    /\ ex = NoEx

NextMetrics ==
    \/ CallRecordTokenUsage
    \/ CallRecordRequest
    \/ EmbeddingsRequest

SpecMetrics == InitMetrics /\ [][NextMetrics]_vars

\* ---------------------------------------------------------------- C11

\* The exchange ran to completion: the response was returned, or the stream
\* callback reached its end.
Completed == pc = "done"

\* C11 as stated: token usage is reported exactly once for every exchange
\* that ran to completion, on both surfaces, streaming or not, even when the
\* upstream reported no usage or zero counts.
C11_ExactlyOncePerCompleted ==
    /\ Len(reported) <= 1
    /\ Completed => Len(reported) = 1

\* C11 as the code has it: token usage is reported at most once per
\* exchange.  A streaming exchange that ran to completion reports its totals
\* once if the prompt or the completion total is greater than zero, and not
\* at all otherwise; nothing is reported before the stream ends.  A
\* complete (non-streaming) response has its usage reported once if it
\* carries a usage record, zero counts included, and not at all otherwise.
C11_AtMostOnceAndOnlyWithUsage ==
    /\ Len(reported) <= 1
    /\ rq.response = "stream" =>
         reported =
           IF Completed /\ (totalPromptTokens > 0 \/ totalCompletionTokens > 0)
           THEN <<<<rq.model, totalPromptTokens, totalCompletionTokens>>>>
           ELSE <<>>
    /\ rq.response = "json" /\ Completed =>
         reported =
           IF rq.usage.has
           THEN <<<<rq.responseModel, rq.usage.prompt_tokens,
                    rq.usage.completion_tokens>>>>
           ELSE <<>>

\* A stream whose only usage record has zero counts ran to completion, and
\* nothing was reported.
C11_Witness ==
    /\ Completed
    /\ rq.response = "stream"
    /\ \E k \in 1..Len(chunks) : chunks[k].usage = Usage(0, 0)
    /\ reported = <<>>

\* ---------------------------------------------------------------- C12

\* C12: once a write has met the closed connection of a client that
\* disconnected mid-stream, no further chunk is consumed and no event is
\* written, and when the callback ends the usage accumulated so far has been
\* reported.
C12_DisconnectStopsLoopAndReports ==
    [][/\ conn = "observed" => chunks' = chunks /\ written' = written
       /\ (conn' = "observed" /\ pc' \in {"done", "failed"}
           /\ (totalPromptTokens' > 0 \/ totalCompletionTokens' > 0))
          => reported' # <<>>]_vars

\* ---------------------------------------------------------------- C13

\* The chunks whose events may have reached the client when the callback
\* failed: JSON.parse fails before the chunk is one, the translator fails
\* on the last chunk taken.
BeforeFailure == IF err = "SyntaxError" THEN chunks ELSE Front(chunks)

\* C13: when JSON.parse or the translation of a chunk fails, the callback
\* has ended, no event of the failing chunk is pending or written, and what
\* was written is exactly the events of the chunks before the failing one,
\* in order: every write precedes the failure and none follows it.
C13_NoWriteFromFailingChunkOn ==
    err # "none" =>
      /\ pc = "failed"
      /\ events = <<>>
      /\ written = Run(BeforeFailure).evs

\* A translation failed on the third chunk after events of the first two
\* were written.
C13_Witness ==
    /\ pc = "failed"
    /\ err = "ProtocolViolation"
    /\ Len(chunks) = MaxChunks
    /\ Len(written) >= 3

\* ---------------------------------------------------------------- C14

\* C14: when admission control rejected the request, or its body was
\* malformed, the request has failed with no upstream call made, no request
\* translation applied, no request metric and no usage metric recorded, and
\* nothing written to the client.
C14_RejectedBeforeAnyEffect ==
    err \in {"RateLimited", "MalformedBody"} =>
      /\ pc = "failed"
      /\ rq.upstreamCalls = 0
      /\ rq.translated = 0
      /\ requested = <<>>
      /\ reported = <<>>
      /\ metrics = ZeroMetrics
      /\ written = <<>>

\* A request of the Anthropic surface passed admission control and failed on
\* its malformed body.
C14_Witness ==
    /\ err = "MalformedBody"
    /\ rq.surface = "messages"
    /\ pc = "failed"

\* ---------------------------------------------------------------- C15

\* The prompt and completion counts an exchange over the chunks cs ends
\* with.
TotalsOf(cs) == <<LastUsage(cs).prompt_tokens, LastUsage(cs).completion_tokens>>

\* What an exchange that ran alone over the chunks cs reports at its end.
ReportOf(cs) ==
    IF TotalsOf(cs)[1] > 0 \/ TotalsOf(cs)[2] > 0
    THEN <<<<"m1", TotalsOf(cs)[1], TotalsOf(cs)[2]>>>>
    ELSE <<>>

\* The sum of the i-th components of the calls in a log.
RECURSIVE SumOf(_, _)
SumOf(log, i) == IF log = <<>> THEN 0 ELSE SumOf(Front(log), i) + Last(log)[i]

AcceptedRequest ==
    /\ tx.output # <<>>
    /\ Len(tx.input.messages) >= 1
    /\ \A i \in 1..Len(tx.input.messages) : tx.input.messages[i].block # "other"

C17_RecordedOncePerAcceptedRequest ==
    /\ Len(requested) <= 1
    /\ (rq.upstreamCalls >= 1 /\ pc # "recordRequest") =>
         requested = <<<<rq.model, rq.surface>>>>

\* ---------------------------------------------------------------- C18

\* The totals the claim describes after the chunks cs: a chunk that is the
\* end marker, empty, not JSON, or without a usage field leaves them as they
\* were; a usage record sets each total to its field, and a missing field
\* keeps the total.
RECURSIVE RelayTotalsAfter(_)
RelayTotalsAfter(cs) ==
    IF cs = <<>> THEN <<0, 0>>
    ELSE LET before == RelayTotalsAfter(Front(cs))
             u == Last(cs).usage
         IN IF Last(cs).data \in {"[DONE]", "", "text"} \/ ~u.has
            THEN before
            ELSE <<IF u.prompt_tokens = Missing THEN before[1] ELSE u.prompt_tokens,
                   IF u.completion_tokens = Missing
                   THEN before[2] ELSE u.completion_tokens>>

\* C18: on the OpenAI surface every upstream chunk, the end marker and
\* chunks that are not JSON included, is written to the client once and in
\* arrival order (a chunk is written before the next is read), and the
\* totals are those the usage records leave, field by field.
C18_RelayVerbatimAndTotals ==
    /\ written \o events = chunks
    /\ pc \in {"relay", "done"} => events = <<>>
    /\ <<totalPromptTokens, totalCompletionTokens>> = RelayTotalsAfter(chunks)

\* A full usage record, then one with no prompt count, then the end marker:
\* all three were written, the prompt total is the one of the first record.
C18_Witness ==
    /\ pc = "relay"
    /\ chunks = <<RelayChunk("json", Usage(2, 1)),
                  RelayChunk("json", Usage(Missing, 0)),
                  RelayChunk("[DONE]", NoUsage)>>
    /\ written = chunks
    /\ totalPromptTokens = 2
    /\ totalCompletionTokens = 0

\* ---------------------------------------------------------------- C19

\* C19, step by step on the Anthropic surface: a raw event "[DONE]" ends
\* the loop with nothing translated or written for it, and after it nothing
\* is translated or written; a raw event with empty data leaves the loop
\* where it was, with nothing written and the translation state and the
\* totals unchanged; when the loop has ended the totals were reported once
\* if the prompt or the completion total is greater than zero, and not at
\* all otherwise.
C19_DoneEndsEmptySkipsReportIfPositive ==
    [][/\ (pc = "read" /\ raw' = "[DONE]") =>
            /\ pc' = "done"
            /\ UNCHANGED <<chunks, events, written, streamState, automaton>>
       /\ raw = "[DONE]" =>
            UNCHANGED <<chunks, events, written, streamState, automaton>>
       /\ (pc = "read" /\ raw' = "") =>
            UNCHANGED <<pc, chunks, events, written, streamState, automaton,
                        totalPromptTokens, totalCompletionTokens, reported>>
       /\ pc' = "done" =>
            reported' =
              IF totalPromptTokens' > 0 \/ totalCompletionTokens' > 0
              THEN <<<<rq.model, totalPromptTokens', totalCompletionTokens'>>>>
              ELSE <<>>
       /\ pc' # "done" => reported' = <<>>]_vars

\* The end marker arrived after two chunks, the second with a usage record,
\* and the totals were reported.
C19_Witness ==
    /\ raw = "[DONE]"
    /\ pc = "done"
    /\ Len(chunks) = 2
    /\ chunks[2].usage = Usage(2, 1)
    /\ reported = <<<<"m1", 2, 1>>>>

\* ---------------------------------------------------------------- C20

\* The sum of the i-th components of the calls of a log made for model m.
RECURSIVE SumFor(_, _, _)
SumFor(log, m, i) ==
    IF log = <<>> THEN 0
    ELSE SumFor(Front(log), m, i) + (IF Last(log)[1] = m THEN Last(log)[i] ELSE 0)

\* The number of calls of a log equal to l.
RECURSIVE CountOf(_, _)
CountOf(log, l) ==
    IF log = <<>> THEN 0
    ELSE CountOf(Front(log), l) + (IF Last(log) = l THEN 1 ELSE 0)

\* C20: after any sequence of recordTokenUsage and recordRequest calls the
\* input-token and output-token counters of every model hold the sums of the
\* tokensIn and tokensOut reported for it (and the request counter the
\* number of requests recorded under each model and endpoint); no call
\* lowers a counter, a recordTokenUsage call leaves the request counter as
\* it was and a recordRequest call leaves both token counters as they were.
C20_CountersAreSums ==
    /\ [](/\ \A m \in Models :
              /\ metrics.tokensIn[m] = SumFor(reported, m, 2)
              /\ metrics.tokensOut[m] = SumFor(reported, m, 3)
          /\ \A l \in Models \X Endpoints :
              metrics.requests[l] = CountOf(requested, l))
    /\ [][/\ \A m \in Models :
              /\ metrics'.tokensIn[m] >= metrics.tokensIn[m]
              /\ metrics'.tokensOut[m] >= metrics.tokensOut[m]
          /\ \A l \in Models \X Endpoints :
              metrics'.requests[l] >= metrics.requests[l]
          /\ requested' = requested => metrics'.requests = metrics.requests
          /\ reported' = reported =>
               /\ metrics'.tokensIn = metrics.tokensIn
               /\ metrics'.tokensOut = metrics.tokensOut]_vars

\* Two usage reports for one model, one for the other and no request
\* recorded: the counters of the first model hold the sums of its two.
C20_Witness ==
    /\ pc = "metrics"
    /\ reported = <<<<"m1", 2, 1>>, <<"m2", 2, 0>>, <<"m1", 2, 0>>>>
    /\ metrics.tokensIn["m1"] = 4
    /\ metrics.tokensOut["m1"] = 1
    /\ metrics.tokensIn["m2"] = 2
    /\ \A l \in Models \X Endpoints : metrics.requests[l] = 0

====
